---------------------------- MODULE Spec2Model ----------------------------
(***************************************************************************)
(* State-machine model of the auctions program                            *)
(* (programs/auctions/src/{state,processor}.rs).                           *)
(*                                                                         *)
(* One instruction of the program is one action.  A handler is modelled   *)
(* in three parts that follow its code: <Handler>Err computes the first   *)
(* failing check (or "Ok"), <Handler>Xfers lists the token transfers it   *)
(* issues, in order, and the action applies the transfers and the record  *)
(* writes, or -- on any error -- leaves every record and balance as it    *)
(* was (the runtime discards the writes of a failed instruction): a       *)
(* failed instruction is a stuttering step.  The variable last describes  *)
(* the last step that took effect on an auction, an item or a token       *)
(* balance: the instruction, its amount argument and the token transfers  *)
(* it issued, in order.  A step of the clock or of the program-state      *)
(* instructions (initialize, set_paused, transfer_ownership) resets it.   *)
(*                                                                         *)
(* Auction.created_at is written at creation and read by no handler; it   *)
(* is left out of the auction record.                                      *)
(*                                                                         *)
(* Accounts are passed to an instruction by its caller.  Where the code   *)
(* does not compare an account with the address it derives, the model     *)
(* lets the caller choose it:                                              *)
(*   - destination token accounts (dealer_token, previous_bidder_token,   *)
(*     winner_token, owner_token, recipient_token: any user's wallet;     *)
(*     fee_vault_token: the fee vault's token account or a wallet);       *)
(*   - escrow_account: the auction's escrow, or a token account the       *)
(*     caller can sign for (the transfer authority is escrow_account.key);*)
(*   - state_account where it is only read: the program-state PDA or an   *)
(*     account the caller has filled in ("forged");                        *)
(*   - auction_account in close_item_vault, which only reads it.          *)
(*                                                                         *)
(* Keyed storage is the external collaborator: a record read back is the  *)
(* record that was written.  User wallets are not tracked (users fund     *)
(* their own transfers); the balances of the escrow, of the fee-vault     *)
(* token account and of the item vault are.                                *)
(*                                                                         *)
(* u64 is modelled at a reduced width (U64_MAX) because the model         *)
(* checker's integers are 32 bits wide; every u64 operation saturates or  *)
(* is checked against U64_MAX exactly as the code does against 2^64 - 1.  *)
(***************************************************************************)
EXTENDS Integers, Sequences, FiniteSets, TLC

\* ------------------------------------------------------------ bounds
NumUsers == 2
MaxTime == 1
MaxDeposits == 1
MaxItemDeposits == 3
MaxFeeAmount == 25000
MaxPennyBids == 2
U64_MAX == 1048575

\* ------------------------------------------------- program constants
ACCEPTANCE_PERIOD == 86400
FEE_RATE == 50
FEE_DENOMINATOR == 10000
MAX_ITEMS == 255
I64_MAX == 2147483647

\* Pubkey::default(): the "no bidder" sentinel.
DefaultPubkey == 0
Users == 1 .. NumUsers

\* Token accounts.  The wallet of user u is u; the two below are the
\* auction's escrow token account and the fee vault's token account.
EscrowTok == -1
FeeVaultTok == -2
ItemVaultTok == -3
Wallet(u) == u
\* fee_vault_token as passed by caller: the fee vault's token account, or
\* the caller's own wallet
FeeTokens(caller) == {FeeVaultTok, Wallet(caller)}
Tracked == {EscrowTok, FeeVaultTok, ItemVaultTok}

VARIABLES state, auction, items, vault, feeVault, bal, now, last

vars == <<state, auction, items, vault, feeVault, bal, now, last>>

\* ---------------------------------------------------------- arithmetic
Max(a, b) == IF a >= b THEN a ELSE b

\* u64::saturating_mul, for factors whose product fits the checker's integers
SatMulU64(a, b) == IF b # 0 /\ a > U64_MAX \div b THEN U64_MAX ELSE a * b
\* u64::saturating_sub
SatSubU64(a, b) == IF b > a THEN 0 ELSE a - b
\* u64::saturating_add
SatAddU64(a, b) == IF a > U64_MAX - b THEN U64_MAX ELSE a + b
\* u64::checked_add: the sum, or -1 for None
CheckedAddU64(a, b) == IF a > U64_MAX - b THEN -1 ELSE a + b
\* i64::saturating_add of a non-negative a (a clock value or a deadline)
SatAddI64(a, b) == IF b > 0 /\ a > I64_MAX - b THEN I64_MAX ELSE a + b

\* calculate_fee with the net taken as its own rounded share of the amount
calculate_fee_split(amount) ==
    LET fee == SatMulU64(amount, FEE_RATE) \div FEE_DENOMINATOR
        net == SatMulU64(amount, FEE_DENOMINATOR - FEE_RATE) \div FEE_DENOMINATOR
    IN  <<fee, net>>

\* calculate_fee with the quotient rounded up
calculate_fee_rounded_up(amount) ==
    LET fee == (SatMulU64(amount, FEE_RATE) + FEE_DENOMINATOR - 1) \div FEE_DENOMINATOR
    IN  <<fee, SatSubU64(amount, fee)>>

\* state.rs calculate_fee: <<fee, net>>
calculate_fee(amount) ==
    LET fee == SatMulU64(amount, FEE_RATE) \div FEE_DENOMINATOR
    IN  <<fee, SatSubU64(amount, fee)>>

Fee(amount) == calculate_fee(amount)[1]
Net(amount) == calculate_fee(amount)[2]

\* calculate_dutch_price without the final max with minimum_price
calculate_dutch_price_unclamped(p, t) ==
    IF t <= p.start_time THEN p.start_price
    ELSE LET intervals == (t - p.start_time) \div p.interval
         IN  SatSubU64(p.start_price, SatMulU64(intervals, p.decrease_amount))

\* calculate_dutch_price: elapsed / interval panics when interval is 0,
\* which create_dutch_auction accepts; the program is then aborted.
DutchPriceAborts(p, t) == t > p.start_time /\ p.interval = 0

\* state.rs calculate_dutch_price where it returns (interval > 0)
calculate_dutch_price(p, t) ==
    IF t <= p.start_time THEN p.start_price
    ELSE LET elapsed == t - p.start_time
             intervals == elapsed \div p.interval
             total_decrease == SatMulU64(intervals, p.decrease_amount)
         IN  Max(SatSubU64(p.start_price, total_decrease), p.minimum_price)

\* ------------------------------------------------------------- records
\* no program state: the handlers read nothing but is_initialized of it
NoState == [is_initialized |-> FALSE, owner |-> DefaultPubkey, paused |-> FALSE,
            auction_count |-> 0]
NoAuction == [is_initialized |-> FALSE]
NoFeeVault == [is_initialized |-> FALSE, amount |-> 0]

\* The clock values the model visits: the start, the deadlines, and the
\* instants around deadline + ACCEPTANCE_PERIOD.
TimePoints == (0 .. MaxTime) \cup {ACCEPTANCE_PERIOD + t : t \in 1 .. (MaxTime + 1)}
Deadlines == 1 .. MaxTime

\* Instruction arguments the model draws from.
Amounts == {0, 200, 300}
\* <<start_amount, increment, reserve_price>> of a Traditional auction
TraditionalTerms == {<<0, 100, 300>>, <<200, U64_MAX, 300>>}
\* <<start_price, decrease_amount, interval, minimum_price>> of a Dutch auction
DutchTerms == {<<400, 100, 1, 200>>}
\* <<increment, timer_duration>> of a Penny auction
PennyTerms == {<<200, 1>>}
DepositAmounts == {1}
MaxPrices == {200, 400}

\* state_account as passed by the caller: the PDA, or an account whose
\* contents the caller chose: initialized, owner = the caller, not paused
\* (a forged account that reads paused only makes the call fail with
\* ContractPaused, as the PDA of a paused program does), and
\* auction_count = u64::MAX, the one value saturating_add(1) leaves as it
\* is: a create writes back the bytes it read, which the runtime accepts
\* on an account the program does not own.
StateAccounts == {"pda", "forged"}

\* What an instruction reads from the state account it was given; Absent
\* when the PDA was passed and does not exist (deserialisation fails).
StateView(st, caller) ==
    IF st = "pda" THEN state
    ELSE [is_initialized |-> TRUE, owner |-> caller,
          paused |-> FALSE, auction_count |-> U64_MAX]

NoXfers == << >>
Xfer(src, dst, amt) == [src |-> src, dst |-> dst, amt |-> amt]

\* spl_token transfer applied to the tracked balances, one transfer after
\* the other: a transfer from an account holding less than amt fails
\* (ok = FALSE), a self transfer moves nothing.
RECURSIVE ApplyXfers(_, _)
ApplyXfers(r, xs) ==
    IF ~r.ok \/ xs = << >> THEN r
    ELSE LET x == Head(xs)
             b == r.bal
         IN  IF x.src \in Tracked /\ b[x.src] < x.amt
             THEN [ok |-> FALSE, bal |-> b]
             ELSE LET b1 == IF x.src \in Tracked
                            THEN [b EXCEPT ![x.src] = @ - x.amt] ELSE b
                      b2 == IF x.dst \in Tracked
                            THEN [b1 EXCEPT ![x.dst] = @ + x.amt] ELSE b1
                  IN  ApplyXfers([ok |-> TRUE, bal |-> b2], Tail(xs))

Transfers(xs) == ApplyXfers([ok |-> TRUE, bal |-> bal], xs)

\* The record of the last step that took effect.
Done(op, amount, xfers) == [op |-> op, amount |-> amount, xfers |-> xfers]
Idle == Done("none", 0, NoXfers)

Init ==
    /\ state = NoState
    /\ auction = NoAuction
    /\ items = << >>
    /\ vault = FALSE
    /\ feeVault = NoFeeVault
    /\ bal = [t \in Tracked |-> 0]
    /\ now = 0
    /\ last = Idle

\* An instruction that returned an error with a write kept: the fee vault
\* account that buy_dutch and bid_penny create ahead of their transfers.
FailedKeepingFeeVault ==
    /\ feeVault' = [feeVault EXCEPT !.is_initialized = TRUE]
    /\ UNCHANGED <<state, auction, items, vault, bal, now, last>>

\* An instruction that returned an error: the runtime discards its writes
\* and its transfers.
Failed == UNCHANGED vars

\* ------------------------------------------------------------ the clock
\* Clock::get(): non-decreasing between instructions.
Tick ==
    /\ \E t \in TimePoints : t > now /\ now' = t
    /\ last' = Idle
    /\ UNCHANGED <<state, auction, items, vault, feeVault, bal>>

\* ------------------------------------------------------- program state
\* initialize let through on a program state that exists
InitializeErrAgain(payer) == "Ok"

\* process_initialize: create_account fails on an address already in use.
InitializeErr(payer) ==
    IF state.is_initialized THEN "AccountAlreadyInUse" ELSE "Ok"

Initialize ==
    \E payer \in Users :
        LET err == InitializeErr(payer)
        IN  IF err # "Ok" THEN Failed
            ELSE /\ state' = [is_initialized |-> TRUE, owner |-> payer,
                              paused |-> FALSE, auction_count |-> 0]
                 /\ last' = Idle
                 /\ UNCHANGED <<auction, items, vault, feeVault, bal, now>>

\* The owner checks shared by set_paused, transfer_ownership, claim_fees.
OwnerErr(sv, caller) ==
    IF ~sv.is_initialized THEN "BorshIoError"
    ELSE IF sv.owner # caller THEN "OnlyOwner"
    ELSE "Ok"

\* process_set_paused: writes the state account.  On an account the program
\* does not own the write is accepted only when it changes no byte, which
\* has no effect at all: the case that matters is the PDA.
SetPaused ==
    \E caller \in Users, paused \in BOOLEAN :
        LET err == OwnerErr(state, caller)
        IN  IF err # "Ok" THEN Failed
            ELSE /\ state' = [state EXCEPT !.paused = paused]
                 /\ last' = Idle
                 /\ UNCHANGED <<auction, items, vault, feeVault, bal, now>>

\* process_transfer_ownership
TransferOwnership ==
    \E caller \in Users, new_owner \in Users :
        LET err == OwnerErr(state, caller)
        IN  IF err # "Ok" THEN Failed
            ELSE /\ state' = [state EXCEPT !.owner = new_owner]
                 /\ last' = Idle
                 /\ UNCHANGED <<auction, items, vault, feeVault, bal, now>>

\* process_claim_fees: the state account is only read.
ClaimFeesErr(sv, caller) ==
    IF OwnerErr(sv, caller) # "Ok" THEN OwnerErr(sv, caller)
    ELSE IF ~feeVault.is_initialized THEN "BorshIoError"
    ELSE IF feeVault.amount = 0 THEN "NoItems"
    ELSE "Ok"

ClaimFeesXfers(owner_token) == << Xfer(FeeVaultTok, owner_token, feeVault.amount) >>

ClaimFees ==
    \E caller \in Users, st \in StateAccounts :
        LET err == ClaimFeesErr(StateView(st, caller), caller)
        IN  IF err # "Ok" THEN Failed
            ELSE \E owner_token \in Users :
                 LET xs == ClaimFeesXfers(owner_token)
                     t == Transfers(xs)
                 IN
                 IF ~t.ok THEN Failed
                 ELSE
                 /\ bal' = t.bal
                 /\ feeVault' = [feeVault EXCEPT !.amount = 0]
                 /\ last' = Done("claim_fees", feeVault.amount, xs)
                 /\ UNCHANGED <<state, auction, items, vault, now>>

\* ------------------------------------------------------------- creation
\* The checks shared by the three create handlers; deadline = 0 stands
\* for "no deadline" (Penny).
CreateErr(sv, checks_deadline, deadline) ==
    IF ~sv.is_initialized THEN "BorshIoError"
    ELSE IF sv.paused THEN "ContractPaused"
    ELSE IF checks_deadline /\ deadline <= now THEN "AuctionExpired"
    ELSE IF auction.is_initialized THEN "AccountAlreadyInUse"
    ELSE "Ok"

\* The auction record with the tag of a Traditional auction whatever its
\* parameters
NewAuctionTraditionalTag(dealer, tag, params) ==
    [is_initialized |-> TRUE, status |-> "Active", auction_type_tag |-> "Traditional",
     dealer |-> dealer, current_bidder |-> DefaultPubkey, current_bid |-> 0,
     auction_type |-> params, item_count |-> 0, finalized_at |-> 0]

NewAuction(dealer, tag, params) ==
    [is_initialized |-> TRUE, status |-> "Active", auction_type_tag |-> tag,
     dealer |-> dealer, current_bidder |-> DefaultPubkey, current_bid |-> 0,
     auction_type |-> params, item_count |-> 0, finalized_at |-> 0]

Created(op, dealer, st, err, tag, params) ==
    IF err # "Ok" THEN Failed
    ELSE /\ auction' = NewAuction(dealer, tag, params)
         /\ state' = IF st = "pda"
                     THEN [state EXCEPT !.auction_count = SatAddU64(@, 1)]
                     ELSE state
         /\ last' = Done(op, 0, NoXfers)
         /\ UNCHANGED <<items, vault, feeVault, bal, now>>

\* process_create_traditional_auction
CreateTraditional ==
    \E dealer \in Users, terms \in TraditionalTerms, deadline \in Deadlines \cup {0},
       st \in StateAccounts :
        Created("create_traditional", dealer, st,
                CreateErr(StateView(st, dealer), TRUE, deadline), "Traditional",
                [kind |-> "Traditional", start_amount |-> terms[1],
                 increment |-> terms[2], reserve_price |-> terms[3],
                 deadline |-> deadline, acceptance_deadline |-> 0,
                 reserve_met |-> FALSE])

\* process_create_dutch_auction
CreateDutch ==
    \E dealer \in Users, terms \in DutchTerms, deadline \in Deadlines \cup {0},
       st \in StateAccounts :
        Created("create_dutch", dealer, st,
                CreateErr(StateView(st, dealer), TRUE, deadline), "Dutch",
                [kind |-> "Dutch", start_price |-> terms[1],
                 decrease_amount |-> terms[2], interval |-> terms[3],
                 minimum_price |-> terms[4], deadline |-> deadline,
                 start_time |-> now])

\* process_create_penny_auction
CreatePenny ==
    \E dealer \in Users, terms \in PennyTerms, st \in StateAccounts :
        Created("create_penny", dealer, st,
                CreateErr(StateView(st, dealer), FALSE, 0), "Penny",
                [kind |-> "Penny", increment |-> terms[1], timer_duration |-> terms[2],
                 current_deadline |-> 0, total_paid |-> 0, last_bid_time |-> 0])


\* The checks of deposit with the limit of MAX_ITEMS left out
DepositErrNoLimit(dealer) ==
    IF ~auction.is_initialized THEN "BorshIoError"
    ELSE IF auction.dealer # dealer THEN "OnlyDealer"
    ELSE IF auction.status # "Active" THEN "AuctionNotActive"
    ELSE "Ok"

\* ---------------------------------------------------------------- items
\* process_deposit_tokens (process_deposit_nft calls it with amount = 1)
DepositErr(dealer) ==
    IF ~auction.is_initialized THEN "BorshIoError"
    ELSE IF auction.dealer # dealer THEN "OnlyDealer"
    ELSE IF auction.status # "Active" THEN "AuctionNotActive"
    ELSE IF auction.item_count >= MAX_ITEMS THEN "MaxItemsExceeded"
    ELSE "Ok"

\* followed: whether the model follows one more deposit
DepositOf(op, amounts, followed) ==
    \E dealer \in Users, amount \in amounts :
        LET err == DepositErr(dealer)
            xs == << Xfer(Wallet(dealer), ItemVaultTok, amount) >>
        IN  /\ followed
            /\ IF err # "Ok" THEN Failed
               ELSE /\ items' = Append(items, [amount |-> amount,
                                               index |-> auction.item_count,
                                               is_initialized |-> TRUE])
                    /\ vault' = TRUE
                    /\ bal' = Transfers(xs).bal
                    /\ auction' = [auction EXCEPT !.item_count = @ + 1]
                    /\ last' = Done(op, amount, xs)
                    /\ UNCHANGED <<state, feeVault, now>>

DepositTokens == DepositOf("deposit_item", DepositAmounts, Len(items) < MaxDeposits)

\* auction_account as close_item_vault reads it: the auction's PDA, or an
\* account the caller filled in with the same auction_id.
AuctionAccounts == {"pda", "forged"}

AuctionView(ac, caller) ==
    IF ac = "pda" THEN auction
    ELSE [is_initialized |-> TRUE, status |-> "Finalized", dealer |-> caller,
          current_bidder |-> DefaultPubkey]

\* process_close_item_vault; item_account is the item record of index
\* item_acct (0 .. MaxDeposits - 1), which the caller chooses.
CloseItemVaultErr(av, authority, item_acct, item_index) ==
    IF ~av.is_initialized THEN "BorshIoError"
    ELSE IF av.status # "Finalized" /\ av.status # "Refunded" THEN "AuctionNotActive"
    ELSE IF av.current_bidder # authority /\ av.dealer # authority THEN "OnlyDealer"
    ELSE IF item_acct + 1 > Len(items) THEN "BorshIoError"
    ELSE IF ~items[item_acct + 1].is_initialized THEN "BorshIoError"
    ELSE IF items[item_acct + 1].index # item_index THEN "NoItems"
    ELSE IF ~vault THEN "InvalidAccountData"
    ELSE "Ok"

CloseItemVault ==
    \E authority \in Users, ac \in AuctionAccounts, item_acct \in 0 .. (MaxDeposits - 1),
       item_index \in 0 .. (MaxDeposits - 1) :
        LET err == CloseItemVaultErr(AuctionView(ac, authority), authority,
                                     item_acct, item_index)
        IN  IF err # "Ok" THEN Failed
            ELSE \E recipient_token \in Users :
                 LET xs == IF bal[ItemVaultTok] > 0
                           THEN << Xfer(ItemVaultTok, recipient_token, bal[ItemVaultTok]) >>
                           ELSE NoXfers
                 IN
                 /\ bal' = Transfers(xs).bal
                 /\ vault' = FALSE
                 /\ items' = [items EXCEPT ![item_acct + 1].is_initialized = FALSE]
                 /\ last' = Done("close_item_vault", item_index, xs)
                 /\ UNCHANGED <<state, auction, feeVault, now>>

\* -------------------------------------------------------------- bidding
\* EntryErr with the status check left out: the variant StatusFollowsEdges
\* is sensitive to.
EntryErrAnyStatus(sv, allowed_status) ==
    IF ~sv.is_initialized THEN "BorshIoError"
    ELSE IF sv.paused THEN "ContractPaused"
    ELSE IF ~auction.is_initialized THEN "BorshIoError"
    ELSE "Ok"

\* The checks every bid and settlement handler starts with.
EntryErr(sv, allowed_status) ==
    IF ~sv.is_initialized THEN "BorshIoError"
    ELSE IF sv.paused THEN "ContractPaused"
    ELSE IF ~auction.is_initialized THEN "BorshIoError"
    ELSE IF auction.status \notin allowed_status THEN "AuctionNotActive"
    ELSE "Ok"

\* process_bid_traditional: the required minimum, -1 on overflow
MinBid(a) ==
    IF a.current_bid = 0 THEN a.auction_type.start_amount
    ELSE CheckedAddU64(a.current_bid, a.auction_type.increment)

BidTraditionalErr(sv, amount) ==
    IF EntryErr(sv, {"Active"}) # "Ok" THEN EntryErr(sv, {"Active"})
    ELSE IF auction.auction_type.kind # "Traditional" THEN "InvalidAuctionType"
    ELSE IF now > auction.auction_type.deadline THEN "AuctionExpired"
    ELSE IF MinBid(auction) = -1 THEN "MathOverflow"
    ELSE IF amount < MinBid(auction) THEN "BidTooLow"
    ELSE "Ok"

\* The refund of the previous bid, then the escrow of the new one.
BidTraditionalXfers(bidder, amount, escrow_account, previous_bidder_token) ==
    (IF auction.current_bidder # DefaultPubkey /\ auction.current_bid > 0
     THEN << Xfer(escrow_account, previous_bidder_token, auction.current_bid) >>
     ELSE NoXfers)
    \o << Xfer(Wallet(bidder), escrow_account, amount) >>

\* reserve_met taken as amount > reserve_price
ReserveMetStrict(amount, p) == amount > p.reserve_price

\* process_bid_traditional: reserve_met as the bid recomputes it
ReserveMet(amount, p) == amount >= p.reserve_price

BidTraditionalOf(amounts) ==
    \E bidder \in Users, amount \in amounts, st \in StateAccounts :
        LET err == BidTraditionalErr(StateView(st, bidder), amount)
        IN  IF err # "Ok" THEN Failed
            ELSE \E previous_bidder_token \in Users,
                    escrow_account \in {EscrowTok, Wallet(bidder)} :
                 LET xs == BidTraditionalXfers(bidder, amount, escrow_account,
                                               previous_bidder_token)
                     t == Transfers(xs)
                 IN
                 IF ~t.ok
                 THEN Failed
                 ELSE
                 /\ bal' = t.bal
                 /\ auction' = [auction EXCEPT
                        !.current_bidder = bidder,
                        !.current_bid = amount,
                        !.auction_type.reserve_met =
                            ReserveMet(amount, auction.auction_type)]
                 /\ last' = Done("bid_traditional", amount, xs)
                 /\ UNCHANGED <<state, items, vault, feeVault, now>>

BidTraditional == BidTraditionalOf(Amounts)

\* The payment of a price out of src: net to dealer_token, and the fee,
\* when it is not zero, to fee_vault_token.
PayoutXfers(src, price, dealer_token, fee_vault_token) ==
    << Xfer(src, dealer_token, Net(price)) >>
    \o (IF Fee(price) > 0 THEN << Xfer(src, fee_vault_token, Fee(price)) >>
        ELSE NoXfers)

\* fee_vault_account as passed by the caller: the fee vault's PDA, or a
\* non-empty account of another layout (the auction's own account, say).
FeeVaultAccounts == {"pda", "foreign"}

\* FeeVault::try_from_slice on fee_vault_account, which the four paying
\* handlers reach after their transfers and only when the fee is not zero.
FeeVaultReadErr(fee, fee_vault_account) ==
    IF fee > 0 /\ fee_vault_account = "foreign" THEN "BorshIoError" ELSE "Ok"

\* The fee vault record after buy_dutch / bid_penny collected a fee: it
\* is created when absent.
FeeVaultPaid(fee) ==
    [is_initialized |-> TRUE,
     amount |-> IF fee > 0 THEN SatAddU64(feeVault.amount, fee) ELSE feeVault.amount]

\* The fee vault record after finalize / accept_bid collected a fee: it
\* is updated only when it exists.
FeeVaultSettled(fee) ==
    IF fee > 0 /\ feeVault.is_initialized
    THEN [feeVault EXCEPT !.amount = SatAddU64(@, fee)]
    ELSE feeVault

\* process_buy_dutch
BuyDutchErr(sv, max_price) ==
    IF EntryErr(sv, {"Active"}) # "Ok" THEN EntryErr(sv, {"Active"})
    ELSE IF auction.item_count = 0 THEN "NoItems"
    ELSE IF auction.auction_type.kind # "Dutch" THEN "InvalidAuctionType"
    ELSE IF now > auction.auction_type.deadline THEN "AuctionExpired"
    ELSE IF DutchPriceAborts(auction.auction_type, now) THEN "ProgramFailedToComplete"
    ELSE IF calculate_dutch_price(auction.auction_type, now) > max_price THEN "BidTooLow"
    ELSE "Ok"

BuyDutch ==
    \E buyer \in Users, max_price \in MaxPrices, st \in StateAccounts :
        LET err == BuyDutchErr(StateView(st, buyer), max_price)
            price == calculate_dutch_price(auction.auction_type, now)
        IN  IF err # "Ok" THEN Failed
            ELSE \E dealer_token \in Users, fee_vault_token \in FeeTokens(buyer),
                    fee_vault_account \in FeeVaultAccounts :
                 LET xs == PayoutXfers(Wallet(buyer), price, dealer_token,
                                       fee_vault_token)
                     t == Transfers(xs)
                 IN
                 IF FeeVaultReadErr(Fee(price), fee_vault_account) # "Ok" THEN Failed
                 ELSE
                 /\ bal' = t.bal
                 /\ feeVault' = IF fee_vault_account = "pda"
                                THEN FeeVaultPaid(Fee(price)) ELSE feeVault
                 /\ auction' = [auction EXCEPT
                        !.current_bidder = buyer,
                        !.current_bid = price,
                        !.status = "Finalized",
                        !.finalized_at = now]
                 /\ last' = Done("buy_dutch", max_price, xs)
                 /\ UNCHANGED <<state, items, vault, now>>

\* process_bid_penny
BidPennyErr(sv) ==
    IF EntryErr(sv, {"Active"}) # "Ok" THEN EntryErr(sv, {"Active"})
    ELSE IF auction.auction_type.kind # "Penny" THEN "InvalidAuctionType"
    ELSE IF auction.auction_type.current_deadline > 0
            /\ now > auction.auction_type.current_deadline THEN "AuctionExpired"
    ELSE "Ok"

BidPenny ==
    \E bidder \in Users, st \in StateAccounts :
        LET err == BidPennyErr(StateView(st, bidder))
            p == auction.auction_type
            total == SatAddU64(p.total_paid, p.increment)
        IN  IF err # "Ok" THEN Failed
            ELSE \E dealer_token \in Users, fee_vault_token \in FeeTokens(bidder),
                    fee_vault_account \in FeeVaultAccounts :
                 LET xs == PayoutXfers(Wallet(bidder), p.increment, dealer_token,
                                       fee_vault_token)
                     t == Transfers(xs)
                 IN
                 IF FeeVaultReadErr(Fee(p.increment), fee_vault_account) # "Ok"
                 THEN Failed
                 ELSE
                 /\ p.total_paid < MaxPennyBids * p.increment
                 /\ p.total_paid < U64_MAX
                 /\ bal' = t.bal
                 /\ feeVault' = IF fee_vault_account = "pda"
                                THEN FeeVaultPaid(Fee(p.increment)) ELSE feeVault
                 /\ auction' = [auction EXCEPT
                        !.current_bidder = bidder,
                        !.current_bid = total,
                        !.auction_type.total_paid = total,
                        !.auction_type.last_bid_time = now,
                        !.auction_type.current_deadline =
                            SatAddI64(now, p.timer_duration)]
                 /\ last' = Done("bid_penny", p.increment, xs)
                 /\ UNCHANGED <<state, items, vault, now>>


\* ----------------------------------------------------------- settlement
\* The checks of finalize with Finalized among the statuses let through: the
\* variant FinalizeOnTerminalFails is sensitive to.
FinalizeErrRetry(sv) ==
    IF EntryErr(sv, {"Active", "Expired", "Finalized"}) # "Ok"
    THEN EntryErr(sv, {"Active", "Expired", "Finalized"})
    ELSE LET p == auction.auction_type
         IN  CASE p.kind = "Traditional" ->
                    IF now <= p.deadline THEN "AuctionNotExpired" ELSE "Ok"
               [] p.kind = "Dutch" ->
                    IF now <= p.deadline THEN "AuctionNotExpired" ELSE "Ok"
               [] p.kind = "Penny" ->
                    IF p.current_deadline = 0 THEN "NoBidder"
                    ELSE IF now <= p.current_deadline THEN "PennyTimerNotExpired"
                    ELSE "Ok"

\* The checks of finalize with the Dutch deadline check left out: the
\* variant DutchNeverExpired is sensitive to.
FinalizeErrDutchEarly(sv) ==
    IF EntryErr(sv, {"Active", "Expired"}) # "Ok"
    THEN EntryErr(sv, {"Active", "Expired"})
    ELSE LET p == auction.auction_type
         IN  CASE p.kind = "Traditional" ->
                    IF now <= p.deadline THEN "AuctionNotExpired" ELSE "Ok"
               [] p.kind = "Dutch" -> "Ok"
               [] p.kind = "Penny" ->
                    IF p.current_deadline = 0 THEN "NoBidder"
                    ELSE IF now <= p.current_deadline THEN "PennyTimerNotExpired"
                    ELSE "Ok"

\* process_finalize_auction: the checks
FinalizeErr(sv) ==
    IF EntryErr(sv, {"Active", "Expired"}) # "Ok"
    THEN EntryErr(sv, {"Active", "Expired"})
    ELSE LET p == auction.auction_type
         IN  CASE p.kind = "Traditional" ->
                    IF now <= p.deadline THEN "AuctionNotExpired" ELSE "Ok"
               [] p.kind = "Dutch" ->
                    IF now <= p.deadline THEN "AuctionNotExpired" ELSE "Ok"
               [] p.kind = "Penny" ->
                    IF p.current_deadline = 0 THEN "NoBidder"
                    ELSE IF now <= p.current_deadline THEN "PennyTimerNotExpired"
                    ELSE "Ok"

\* process_finalize_auction: the branch taken once the checks passed
FinalizeBranch(a) ==
    LET p == a.auction_type
    IN  CASE p.kind = "Traditional" ->
               IF a.current_bidder = DefaultPubkey THEN "no_bids"
               ELSE IF p.reserve_met THEN "sale"
               ELSE IF now <= SatAddI64(p.deadline, ACCEPTANCE_PERIOD) THEN "window"
               ELSE "refund_bid"
          [] p.kind = "Dutch" -> "dutch_unsold"
          [] p.kind = "Penny" -> "penny_won"

FinalizeXfers(a, escrow_account, dealer_token, winner_token, fee_vault_token) ==
    CASE FinalizeBranch(a) = "sale" ->
            PayoutXfers(escrow_account, a.current_bid, dealer_token, fee_vault_token)
      [] FinalizeBranch(a) = "refund_bid" ->
            << Xfer(escrow_account, winner_token, a.current_bid) >>
      [] OTHER -> NoXfers

\* The auction record finalize writes, with finalized_at left as it was
\* in the arms that refund
FinalizedUnstamped(a) ==
    CASE FinalizeBranch(a) \in {"no_bids", "refund_bid", "dutch_unsold"} ->
            [a EXCEPT !.status = "Refunded"]
      [] FinalizeBranch(a) \in {"sale", "penny_won"} ->
            [a EXCEPT !.status = "Finalized", !.finalized_at = now]
      [] FinalizeBranch(a) = "window" ->
            [a EXCEPT !.status = "Expired",
                      !.auction_type.acceptance_deadline =
                          SatAddI64(a.auction_type.deadline, ACCEPTANCE_PERIOD)]

\* process_finalize_auction: the auction record written
Finalized(a) ==
    CASE FinalizeBranch(a) \in {"no_bids", "refund_bid", "dutch_unsold"} ->
            [a EXCEPT !.status = "Refunded", !.finalized_at = now]
      [] FinalizeBranch(a) \in {"sale", "penny_won"} ->
            [a EXCEPT !.status = "Finalized", !.finalized_at = now]
      [] FinalizeBranch(a) = "window" ->
            [a EXCEPT !.status = "Expired",
                      !.auction_type.acceptance_deadline =
                          SatAddI64(a.auction_type.deadline, ACCEPTANCE_PERIOD)]

\* process_finalize_auction: the fee its sale arm collects, 0 in the others
FinalizeFee(a) == IF FinalizeBranch(a) = "sale" THEN Fee(a.current_bid) ELSE 0

FinalizeAuction ==
    \E caller \in Users, st \in StateAccounts :
        LET err == FinalizeErr(StateView(st, caller))
        IN  IF err # "Ok" THEN Failed
            ELSE \E dealer_token \in Users, winner_token \in Users,
                    fee_vault_token \in FeeTokens(caller),
                    escrow_account \in {EscrowTok, Wallet(caller)},
                    fee_vault_account \in FeeVaultAccounts :
                 LET xs == FinalizeXfers(auction, escrow_account, dealer_token,
                                         winner_token, fee_vault_token)
                     t == Transfers(xs)
                 IN
                 IF ~t.ok \/ FeeVaultReadErr(FinalizeFee(auction), fee_vault_account) # "Ok"
                 THEN Failed
                 ELSE
                 /\ bal' = t.bal
                 /\ feeVault' = IF FinalizeBranch(auction) = "sale"
                                THEN FeeVaultSettled(Fee(auction.current_bid))
                                ELSE feeVault
                 /\ auction' = Finalized(auction)
                 /\ last' = Done("finalize", 0, xs)
                 /\ UNCHANGED <<state, items, vault, now>>

\* The checks of accept_bid with the status check left out: the variant
\* TerminalIsFrozen is sensitive to.
AcceptBidErrAnyStatus(sv, dealer) ==
    IF ~sv.is_initialized THEN "BorshIoError"
    ELSE IF sv.paused THEN "ContractPaused"
    ELSE IF ~auction.is_initialized THEN "BorshIoError"
    ELSE IF auction.dealer # dealer THEN "OnlyDealer"
    ELSE IF auction.current_bidder = DefaultPubkey THEN "NoBidder"
    ELSE IF auction.auction_type.kind # "Traditional" THEN "InvalidAuctionType"
    ELSE IF auction.auction_type.acceptance_deadline > 0
            /\ now > auction.auction_type.acceptance_deadline
         THEN "AcceptancePeriodExpired"
    ELSE "Ok"

\* process_accept_bid
AcceptBidErr(sv, dealer) ==
    IF ~sv.is_initialized THEN "BorshIoError"
    ELSE IF sv.paused THEN "ContractPaused"
    ELSE IF ~auction.is_initialized THEN "BorshIoError"
    ELSE IF auction.dealer # dealer THEN "OnlyDealer"
    ELSE IF auction.status # "Expired" THEN "AuctionNotActive"
    ELSE IF auction.current_bidder = DefaultPubkey THEN "NoBidder"
    ELSE IF auction.auction_type.kind # "Traditional" THEN "InvalidAuctionType"
    ELSE IF auction.auction_type.acceptance_deadline > 0
            /\ now > auction.auction_type.acceptance_deadline
         THEN "AcceptancePeriodExpired"
    ELSE "Ok"

AcceptBid ==
    \E dealer \in Users, st \in StateAccounts :
        LET err == AcceptBidErr(StateView(st, dealer), dealer)
        IN  IF err # "Ok" THEN Failed
            ELSE \E dealer_token \in Users, fee_vault_token \in FeeTokens(dealer),
                    escrow_account \in {EscrowTok, Wallet(dealer)},
                    fee_vault_account \in FeeVaultAccounts :
                 LET xs == PayoutXfers(escrow_account, auction.current_bid,
                                       dealer_token, fee_vault_token)
                     t == Transfers(xs)
                 IN
                 IF ~t.ok \/ FeeVaultReadErr(Fee(auction.current_bid), fee_vault_account) # "Ok"
                 THEN Failed
                 ELSE
                 /\ bal' = t.bal
                 /\ feeVault' = FeeVaultSettled(Fee(auction.current_bid))
                 /\ auction' = [auction EXCEPT !.status = "Finalized",
                                               !.finalized_at = now]
                 /\ last' = Done("accept_bid", 0, xs)
                 /\ UNCHANGED <<state, items, vault, now>>

\* ---------------------------------------------------------- the program
Next ==
    \/ Tick
    \/ Initialize
    \/ SetPaused
    \/ TransferOwnership
    \/ ClaimFees
    \/ CreateTraditional
    \/ CreateDutch
    \/ CreatePenny
    \/ DepositTokens
    \/ CloseItemVault
    \/ BidTraditional
    \/ BuyDutch
    \/ BidPenny
    \/ FinalizeAuction
    \/ AcceptBid

Spec == Init /\ [][Next]_vars

\* ================================================================ claims
Terminal == auction.is_initialized /\ auction.status \in {"Finalized", "Refunded"}
IsTraditional == auction.is_initialized /\ auction.auction_type.kind = "Traditional"
IsDutch == auction.is_initialized /\ auction.auction_type.kind = "Dutch"
HasBidder == auction.current_bidder # DefaultPubkey

StatusEdges ==
    {<<"Active", "Expired">>, <<"Active", "Finalized">>, <<"Active", "Refunded">>,
     <<"Expired", "Finalized">>, <<"Expired", "Refunded">>}

\* C1: every change of an auction's status follows one of the edges
\* Active->Expired, Active->Finalized, Active->Refunded, Expired->Finalized,
\* Expired->Refunded; an auction is created Active; an auction that exists
\* is never replaced or removed, and no status moves backwards.
C1_StatusFollowsEdges ==
    [][ /\ (~auction.is_initialized /\ auction'.is_initialized
               => auction'.status = "Active")
        /\ (auction.is_initialized =>
               /\ auction'.is_initialized
               /\ (auction'.status # auction.status
                      => <<auction.status, auction'.status>> \in StatusEdges)) ]_vars

\* A Traditional auction that went Active -> Expired -> Refunded.
C1_WentThroughExpired ==
    /\ IsTraditional
    /\ auction.status = "Refunded"
    /\ auction.auction_type.acceptance_deadline > 0

\* C2: once the status is Finalized or Refunded no step changes any field
\* of the Auction record or the escrow balance; the item records, the item
\* vault and its balance change only by close_item_vault.
C2_TerminalIsFrozen ==
    [][ Terminal =>
           /\ auction' = auction
           /\ bal'[EscrowTok] = bal[EscrowTok]
           /\ (items' # items \/ vault' # vault
                  \/ bal'[ItemVaultTok] # bal[ItemVaultTok])
                 => last'.op = "close_item_vault" ]_vars

\* An item vault closed on a terminal auction.
C2_ClosedAfterTerminal ==
    /\ Terminal
    /\ last.op = "close_item_vault"
    /\ Len(last.xfers) = 1
    /\ ~vault

\* C3 (as stated): finalize on an auction whose status is Finalized or
\* Refunded fails with AuctionNotActive, whoever calls it and whatever state
\* account is passed, and no finalize takes effect.
C3_FinalizeOnTerminalNotActive ==
    [][ Terminal =>
           /\ \A caller \in Users, st \in StateAccounts :
                  FinalizeErr(StateView(st, caller)) = "AuctionNotActive"
           /\ last'.op # "finalize" ]_vars

\* C3 (amended): finalize on an auction whose status is Finalized or
\* Refunded fails -- with ContractPaused when the state account passed
\* reads paused (that check comes first), with AuctionNotActive otherwise --
\* and no finalize takes effect: no transfer, no fee accrual, no change of
\* the Auction record.
C3_FinalizeOnTerminalFails ==
    [][ Terminal =>
           /\ \A caller \in Users, st \in StateAccounts :
                  FinalizeErr(StateView(st, caller)) =
                      IF ~StateView(st, caller).is_initialized THEN "BorshIoError"
                      ELSE IF StateView(st, caller).paused THEN "ContractPaused"
                      ELSE "AuctionNotActive"
           /\ last'.op # "finalize" ]_vars

\* A finalized auction of a paused program: finalize answers ContractPaused
\* when given the program state, AuctionNotActive when given a state account
\* that reads not paused.
C3_TerminalWhilePaused ==
    /\ Terminal
    /\ auction.finalized_at > 0
    /\ state.is_initialized /\ state.paused
    /\ FinalizeErr(StateView("pda", 1)) = "ContractPaused"
    /\ FinalizeErr(StateView("forged", 1)) = "AuctionNotActive"

\* C4: the first successful bid_traditional has amount >= start_amount, a
\* successful bid placed when a bidder already exists has amount >=
\* current_bid + increment; a bid that reaches the amount check below that
\* minimum fails with BidTooLow, and with MathOverflow when current_bid +
\* increment does not fit a u64.
C4_MinimumBid ==
    IsTraditional =>
        \A bidder \in Users, st \in StateAccounts, amount \in Amounts :
            LET err == BidTraditionalErr(StateView(st, bidder), amount)
                p == auction.auction_type
                required == IF HasBidder THEN auction.current_bid + p.increment
                            ELSE p.start_amount
                checked == err \in {"Ok", "BidTooLow", "MathOverflow"}
            IN  /\ err = "Ok" => amount >= required
                /\ (checked /\ required > U64_MAX) => err = "MathOverflow"
                /\ (checked /\ required <= U64_MAX /\ amount < required)
                      => err = "BidTooLow"

\* What the transfers xs put into token account w, and what they took out
\* of it.
RECURSIVE Credited(_, _)
Credited(xs, w) ==
    IF xs = << >> THEN 0
    ELSE (IF Head(xs).dst = w THEN Head(xs).amt ELSE 0) + Credited(Tail(xs), w)

RECURSIVE Debited(_, _)
Debited(xs, w) ==
    IF xs = << >> THEN 0
    ELSE (IF Head(xs).src = w THEN Head(xs).amt ELSE 0) + Debited(Tail(xs), w)

\* C5: a bid_traditional that takes effect on an auction with a bidder
\* takes exactly the prior current_bid out of the escrow and credits it to
\* the prior current_bidder, and puts the new amount into the escrow,
\* whatever accounts were passed.
C5_PriorBidRefunded ==
    [][ (last'.op = "bid_traditional" /\ HasBidder) =>
            /\ Debited(last'.xfers, EscrowTok) = auction.current_bid
            /\ Credited(last'.xfers, Wallet(auction.current_bidder))
                  = auction.current_bid
            /\ Credited(last'.xfers, EscrowTok) = auction'.current_bid ]_vars

\* The price the last step paid out: the increment for bid_penny, the
\* recorded current_bid for buy_dutch, finalize and accept_bid.
PricePaid ==
    IF last.op = "bid_penny" THEN auction.auction_type.increment
    ELSE auction.current_bid

PaidOut ==
    \/ last.op \in {"buy_dutch", "bid_penny", "accept_bid"}
    \/ last.op = "finalize" /\ IsTraditional /\ auction.status = "Finalized"

\* C6: a step that pays out sale proceeds credits net(price) to the token
\* account of the dealer stored in the Auction record and fee(price) to the
\* fee vault's token account, and net + fee = price.
C6_ProceedsToDealerAndFeeVault ==
    PaidOut =>
        /\ Net(PricePaid) + Fee(PricePaid) = PricePaid
        /\ Credited(last.xfers, Wallet(auction.dealer)) = Net(PricePaid)
        /\ Credited(last.xfers, FeeVaultTok) = Fee(PricePaid)

\* C7: finalize on a Traditional auction succeeds only when now > deadline
\* and otherwise fails with AuctionNotExpired once the entry checks passed;
\* a finalize that takes effect: no bidder -> Refunded; bidder and
\* reserve_met -> net to the dealer and fee to the fee vault, both from the
\* escrow, Finalized; bidder, reserve not met, now <= deadline + 24h ->
\* acceptance_deadline = deadline + 24h, Expired, the escrow untouched;
\* bidder, reserve not met, now > deadline + 24h -> Refunded.
C7_TraditionalFinalize ==
    [][ IsTraditional =>
          LET p == auction.auction_type
              xs == last'.xfers
          IN
          /\ \A caller \in Users, st \in StateAccounts :
                LET sv == StateView(st, caller)
                IN  /\ FinalizeErr(sv) = "Ok" => now > p.deadline
                    /\ (EntryErr(sv, {"Active", "Expired"}) = "Ok"
                           /\ now <= p.deadline)
                          => FinalizeErr(sv) = "AuctionNotExpired"
          /\ last'.op = "finalize" =>
                IF ~HasBidder
                THEN auction'.status = "Refunded" /\ xs = NoXfers
                ELSE IF p.reserve_met
                THEN /\ Debited(xs, EscrowTok) = auction.current_bid
                     /\ Credited(xs, Wallet(auction.dealer)) = Net(auction.current_bid)
                     /\ Credited(xs, FeeVaultTok) = Fee(auction.current_bid)
                     /\ auction'.status = "Finalized"
                ELSE IF now <= p.deadline + ACCEPTANCE_PERIOD
                THEN /\ auction'.auction_type.acceptance_deadline =
                            p.deadline + ACCEPTANCE_PERIOD
                     /\ auction'.status = "Expired"
                     /\ xs = NoXfers
                     /\ bal'[EscrowTok] = bal[EscrowTok]
                ELSE auction'.status = "Refunded" ]_vars

\* C8: when finalize has moved a Traditional auction with a bid to
\* Refunded, the whole current_bid went out of the escrow and into the token
\* account of the recorded current_bidder.
C8_RefundToRecordedBidder ==
    (last.op = "finalize" /\ IsTraditional /\ auction.status = "Refunded"
        /\ HasBidder)
      => /\ Debited(last.xfers, EscrowTok) = auction.current_bid
         /\ Credited(last.xfers, Wallet(auction.current_bidder))
               = auction.current_bid

\* C9: accept_bid succeeds only for the auction's dealer, on status
\* Expired, with a bidder and now <= acceptance_deadline; given a state
\* account that reads not paused it fails with OnlyDealer for any other
\* caller, with AuctionNotActive when the status is not Expired, with
\* AcceptancePeriodExpired when acceptance_deadline > 0 and now >
\* acceptance_deadline; once it took effect net(current_bid) went to the
\* dealer and fee(current_bid) to the fee vault, both from the escrow, and
\* the status is Finalized.
C9_AcceptBid ==
    /\ auction.is_initialized =>
         \A dealer \in Users, st \in StateAccounts :
            LET sv == StateView(st, dealer)
                err == AcceptBidErr(sv, dealer)
            IN  /\ err = "Ok" =>
                      /\ dealer = auction.dealer
                      /\ auction.status = "Expired"
                      /\ HasBidder
                      /\ now <= auction.auction_type.acceptance_deadline
                /\ (~sv.paused /\ dealer # auction.dealer) => err = "OnlyDealer"
                /\ (~sv.paused /\ dealer = auction.dealer
                       /\ auction.status # "Expired") => err = "AuctionNotActive"
                /\ (~sv.paused /\ dealer = auction.dealer
                       /\ auction.status = "Expired" /\ HasBidder
                       /\ auction.auction_type.acceptance_deadline > 0
                       /\ now > auction.auction_type.acceptance_deadline)
                      => err = "AcceptancePeriodExpired"
    /\ last.op = "accept_bid" =>
         /\ Debited(last.xfers, EscrowTok) = auction.current_bid
         /\ Credited(last.xfers, Wallet(auction.dealer)) = Net(auction.current_bid)
         /\ Credited(last.xfers, FeeVaultTok) = Fee(auction.current_bid)
         /\ auction.status = "Finalized"

\* C10: buy_dutch succeeds only if the auction is Active, the program is
\* not paused, item_count > 0, now <= deadline and the price at now is <=
\* max_price, and fails with BidTooLow when only the price check fails;
\* once it took effect the buyer has paid exactly the price (at most
\* max_price), the status is Finalized, finalized_at = now, current_bidder
\* is the buyer and current_bid the price.
C10_BuyDutch ==
    /\ IsDutch =>
         \A buyer \in Users, max_price \in MaxPrices, st \in StateAccounts :
            LET err == BuyDutchErr(StateView(st, buyer), max_price)
                p == auction.auction_type
                price == calculate_dutch_price(p, now)
            IN  /\ err = "Ok" =>
                      /\ auction.status = "Active"
                      /\ ~state.paused
                      /\ auction.item_count > 0
                      /\ now <= p.deadline
                      /\ price <= max_price
                /\ (auction.status = "Active" /\ ~StateView(st, buyer).paused
                       /\ auction.item_count > 0 /\ now <= p.deadline
                       /\ price > max_price) => err = "BidTooLow"
    /\ last.op = "buy_dutch" =>
         /\ auction.current_bid = calculate_dutch_price(auction.auction_type, now)
         /\ auction.current_bid <= last.amount
         /\ Debited(last.xfers, Wallet(auction.current_bidder)) = auction.current_bid
         /\ auction.status = "Finalized"
         /\ auction.finalized_at = now

PennyEdgeTerms == {<<200, 1>>, <<U64_MAX - 100, 1>>, <<200, I64_MAX>>, <<200, -1>>}

\* The program right after a create_penny_auction with such terms.
PennyInit ==
    /\ state = [is_initialized |-> TRUE, owner |-> 1, paused |-> FALSE,
                auction_count |-> 1]
    /\ \E dealer \in Users, terms \in PennyEdgeTerms :
          auction = NewAuction(dealer, "Penny",
                       [kind |-> "Penny", increment |-> terms[1],
                        timer_duration |-> terms[2], current_deadline |-> 0,
                        total_paid |-> 0, last_bid_time |-> 0])
    /\ items = << >>
    /\ vault = FALSE
    /\ feeVault = NoFeeVault
    /\ bal = [t \in Tracked |-> 0]
    /\ now = 0
    /\ last = Done("create_penny", 0, NoXfers)

PennyNext ==
    \/ Tick
    \/ BidPenny
    \/ FinalizeAuction

PennySpec == PennyInit /\ [][PennyNext]_vars

IsPenny == auction.is_initialized /\ auction.auction_type.kind = "Penny"

\* C12: a bid_penny that takes effect at time now sets current_deadline to
\* exactly now + timer_duration, increases total_paid by exactly increment,
\* sets last_bid_time = now, current_bidder = the bidder and current_bid =
\* total_paid, and leaves the status Active; a bid_penny that passes the
\* entry checks when current_deadline > 0 and now > current_deadline fails
\* with AuctionExpired.
C12_PennyBidEffects ==
    [][ IsPenny =>
          LET p == auction.auction_type
              q == auction'.auction_type
          IN
          /\ (p.current_deadline > 0 /\ now > p.current_deadline) =>
                \A bidder \in Users, st \in StateAccounts :
                    EntryErr(StateView(st, bidder), {"Active"}) = "Ok"
                       => BidPennyErr(StateView(st, bidder)) = "AuctionExpired"
          /\ last'.op = "bid_penny" =>
                /\ q.current_deadline - now = p.timer_duration
                /\ q.total_paid - p.total_paid = p.increment
                /\ q.last_bid_time = now
                /\ Debited(last'.xfers, Wallet(auction'.current_bidder)) = p.increment
                /\ auction'.current_bid = q.total_paid
                /\ auction'.status = "Active" ]_vars

\* C13: a finalize of a Penny auction that passes the entry checks fails
\* with NoBidder if no bid was ever placed; on an auction with a bid it
\* succeeds exactly when now > current_deadline and fails with
\* PennyTimerNotExpired otherwise; once it took effect the status is
\* Finalized, finalized_at = now and no payment was transferred.
C13_PennyFinalize ==
    IsPenny =>
        /\ \A caller \in Users, st \in StateAccounts :
              LET sv == StateView(st, caller)
                  err == FinalizeErr(sv)
                  p == auction.auction_type
              IN  EntryErr(sv, {"Active", "Expired"}) = "Ok" =>
                    /\ ~HasBidder => err = "NoBidder"
                    /\ HasBidder =>
                          /\ err = "Ok" <=> now > p.current_deadline
                          /\ now <= p.current_deadline
                                => err = "PennyTimerNotExpired"
        /\ last.op = "finalize" =>
              /\ auction.status = "Finalized"
              /\ auction.finalized_at = now
              /\ last.xfers = NoXfers

\* ------------------------------------------------------ the fee alone
\* calculate_fee applied to amounts of every size: the small ones, those
\* around the first amount whose product with FEE_RATE leaves the integer
\* width, and the largest.
FeeAmounts == (0 .. MaxFeeAmount) \cup {U64_MAX - k : k \in 0 .. MaxFeeAmount}

FeeInit ==
    /\ state = NoState /\ auction = NoAuction /\ items = << >>
    /\ vault = FALSE /\ feeVault = NoFeeVault
    /\ bal = [t \in Tracked |-> 0] /\ now = 0
    /\ \E amount \in FeeAmounts : last = Done("amount", amount, NoXfers)

CalculateFee ==
    /\ last.op = "amount"
    /\ last' = [op |-> "calculate_fee", amount |-> last.amount,
                fee |-> calculate_fee(last.amount)[1],
                net |-> calculate_fee(last.amount)[2]]
    /\ UNCHANGED <<state, auction, items, vault, feeVault, bal, now>>

FeeNext == CalculateFee

FeeSpec == FeeInit /\ [][FeeNext]_vars

\* C14: for every amount calculate_fee returns <<fee, net>> with
\* fee + net = amount and fee <= amount, both within the integer width;
\* 1000 gives <<5, 995>> and 10000 gives <<50, 9950>>.
C14_FeeSplitsAmount ==
    last.op = "calculate_fee" =>
        /\ last.fee \in 0 .. U64_MAX /\ last.net \in 0 .. U64_MAX
        /\ last.fee + last.net = last.amount
        /\ last.fee <= last.amount
        /\ last.amount = 1000 => last.fee = 5 /\ last.net = 995
        /\ last.amount = 10000 => last.fee = 50 /\ last.net = 9950

\* the fee of the largest amount, whose product with FEE_RATE saturates
C14_SplitOfLargestAmount ==
    /\ last.op = "calculate_fee" /\ last.amount = U64_MAX
    /\ last.amount > U64_MAX \div FEE_RATE
    /\ last.fee > 0 /\ last.fee + last.net = U64_MAX

\* C15: for every amount, those whose product with FEE_RATE leaves the
\* integer width included, the fee is exactly
\* floor(amount * FEE_RATE / FEE_DENOMINATOR).
C15_FeeIsExactFloor ==
    last.op = "calculate_fee" =>
        last.fee = (last.amount * FEE_RATE) \div FEE_DENOMINATOR

\* ------------------------------------------------- Dutch auctions alone
\* One Dutch auction as process_create_dutch_auction leaves it at time 0,
\* for the terms the instruction stores as given: the worked example of the
\* unit test, a floor above the start price, a decrease that saturates the
\* product, and the terms of the main model.
DutchEdgeTerms ==
    {<<1000, 10, 60, 100>>, <<100, 10, 1, 200>>,
     <<U64_MAX, U64_MAX - 1, 1, 5>>, <<400, 100, 1, 200>>}
\* the instants at which the price is read
DutchTimes == {0, 1, 2, 3, 59, 60, 61, 300, 100000}

DutchInit ==
    /\ state = [is_initialized |-> TRUE, owner |-> 1, paused |-> FALSE,
                auction_count |-> 1]
    /\ \E dealer \in Users, terms \in DutchEdgeTerms, deadline \in Deadlines :
          auction = NewAuction(dealer, "Dutch",
                        [kind |-> "Dutch", start_price |-> terms[1],
                         decrease_amount |-> terms[2], interval |-> terms[3],
                         minimum_price |-> terms[4], deadline |-> deadline,
                         start_time |-> 0])
    /\ items = << >> /\ vault = FALSE /\ feeVault = NoFeeVault
    /\ bal = [t \in Tracked |-> 0] /\ now = 0
    /\ last = Done("create_dutch", 0, NoXfers)

\* calculate_dutch_price read at an instant of the caller's choice
PriceAt ==
    /\ \E t \in DutchTimes :
          last' = [op |-> "dutch_price", time |-> t,
                   price |-> calculate_dutch_price(auction.auction_type, t)]
    /\ UNCHANGED <<state, auction, items, vault, feeVault, bal, now>>

DutchNext ==
    \/ Tick
    \/ DepositTokens
    \/ BuyDutch
    \/ PriceAt

DutchSpec == DutchInit /\ [][DutchNext]_vars

\* start_price less k decreases, floored at 0, as a quantity of naturals
PriceAfter(start_price, k, decrease_amount) ==
    IF decrease_amount # 0 /\ k > start_price \div decrease_amount THEN 0
    ELSE start_price - k * decrease_amount

ExampleTerms(p) ==
    /\ p.start_price = 1000 /\ p.decrease_amount = 10 /\ p.interval = 60
    /\ p.minimum_price = 100 /\ p.start_time = 0

\* C16: with interval > 0 the price at time t is start_price when
\* t <= start_time, and otherwise start_price less
\* floor((t - start_time) / interval) * decrease_amount (floored at 0),
\* raised to minimum_price; for start 1000, decrease 10, interval 60,
\* minimum 100, start_time 0 it is 1000 at 0, 990 at 60, 950 at 300 and 100
\* at 100000.
C16_DutchPriceFormula ==
    LET p == auction.auction_type IN
    (last.op = "dutch_price" /\ p.interval > 0) =>
        /\ last.time <= p.start_time => last.price = p.start_price
        /\ last.time > p.start_time =>
              last.price = Max(PriceAfter(p.start_price,
                                          (last.time - p.start_time) \div p.interval,
                                          p.decrease_amount),
                               p.minimum_price)
        /\ ExampleTerms(p) =>
              /\ last.time = 0 => last.price = 1000
              /\ last.time = 60 => last.price = 990
              /\ last.time = 300 => last.price = 950
              /\ last.time = 100000 => last.price = 100

\* the example auction priced long after its price reached the floor
C16_ExampleAtFloor ==
    /\ last.op = "dutch_price" /\ ExampleTerms(auction.auction_type)
    /\ last.time = 100000 /\ last.price = 100

\* C17: for every Dutch auction create accepts (interval > 0) the price
\* never increases as time advances, and once it equals minimum_price it
\* stays there.
C17_DutchPriceNonIncreasing ==
    LET p == auction.auction_type IN
    (last.op = "dutch_price" /\ p.interval > 0) =>
        \A t \in DutchTimes :
            t >= last.time =>
                /\ calculate_dutch_price(p, t) <= last.price
                /\ last.price = p.minimum_price =>
                      calculate_dutch_price(p, t) = p.minimum_price

\* C18: the Dutch price is at least minimum_price at every time, and every
\* successful buy_dutch records a current_bid of at least minimum_price.
C18_DutchPriceAtLeastMinimum ==
    /\ last.op = "dutch_price" =>
          last.price >= auction.auction_type.minimum_price
    /\ (IsDutch /\ last.op = "buy_dutch") =>
          auction.current_bid >= auction.auction_type.minimum_price

\* ------------------------------------------- one Traditional auction
\* The auction start_amount = 100, increment = 10, reserve_price = 150,
\* deadline = ScenarioDeadline, as process_create_traditional_auction leaves
\* it at time 0, bid on with 100, 110 and 160. The fee vault of its payment
\* mint may exist already (another auction on that mint created it).
ScenarioDeadline == 1
ScenarioAmounts == {100, 110, 160}

ScenarioInit ==
    /\ state = [is_initialized |-> TRUE, owner |-> 1, paused |-> FALSE,
                auction_count |-> 1]
    /\ \E dealer \in Users :
          auction = NewAuction(dealer, "Traditional",
                        [kind |-> "Traditional", start_amount |-> 100,
                         increment |-> 10, reserve_price |-> 150,
                         deadline |-> ScenarioDeadline,
                         acceptance_deadline |-> 0, reserve_met |-> FALSE])
    /\ items = << >> /\ vault = FALSE
    /\ feeVault \in {NoFeeVault, [is_initialized |-> TRUE, amount |-> 0]}
    /\ bal = [t \in Tracked |-> 0] /\ now = 0
    /\ last = Done("create_traditional", 0, NoXfers)

ScenarioBid == BidTraditionalOf(ScenarioAmounts)

ScenarioNext ==
    \/ Tick
    \/ ScenarioBid
    \/ FinalizeAuction

ScenarioSpec == ScenarioInit /\ [][ScenarioNext]_vars

\* the amounts of a transfer list, in order
XferAmounts(xs) == [i \in 1 .. Len(xs) |-> xs[i].amt]

\* the bids of the scenario, up to the third
ScenarioBids ==
    /\ (auction.current_bid = 0 /\ last'.op = "bid_traditional"
        /\ last'.amount = 100) =>
          /\ auction'.current_bid = 100
          /\ ~auction'.auction_type.reserve_met
    /\ (auction.current_bid = 100 /\ last'.op = "bid_traditional"
        /\ last'.amount = 110) =>
          /\ XferAmounts(last'.xfers) = <<100, 110>>
          /\ auction'.current_bid = 110
          /\ ~auction'.auction_type.reserve_met
    /\ (auction.current_bid = 110 /\ last'.op = "bid_traditional"
        /\ last'.amount = 160) =>
          /\ XferAmounts(last'.xfers) = <<110, 160>>
          /\ auction'.current_bid = 160
          /\ auction'.auction_type.reserve_met

\* finalize of the scenario's auction standing at the bid of 160
ScenarioSale ==
    /\ auction.current_bid = 160 /\ auction.auction_type.reserve_met
    /\ last'.op = "finalize"

ReturnedOk(op, amount) ==
    CASE op = "claim_fees" ->
            \E caller \in Users, st \in StateAccounts :
                ClaimFeesErr(StateView(st, caller), caller) = "Ok"
      [] op \in {"create_traditional", "create_dutch"} ->
            \E dealer \in Users, st \in StateAccounts, deadline \in Deadlines \cup {0} :
                CreateErr(StateView(st, dealer), TRUE, deadline) = "Ok"
      [] op = "create_penny" ->
            \E dealer \in Users, st \in StateAccounts :
                CreateErr(StateView(st, dealer), FALSE, 0) = "Ok"
      [] op = "deposit_item" -> \E dealer \in Users : DepositErr(dealer) = "Ok"
      [] op = "close_item_vault" ->
            \E authority \in Users, ac \in AuctionAccounts,
               item_acct \in 0 .. (MaxDeposits - 1) :
                CloseItemVaultErr(AuctionView(ac, authority), authority,
                                  item_acct, amount) = "Ok"
      [] op = "bid_traditional" ->
            \E bidder \in Users, st \in StateAccounts :
                BidTraditionalErr(StateView(st, bidder), amount) = "Ok"
      [] op = "buy_dutch" ->
            \E buyer \in Users, st \in StateAccounts, fva \in FeeVaultAccounts :
                /\ BuyDutchErr(StateView(st, buyer), amount) = "Ok"
                /\ FeeVaultReadErr(Fee(calculate_dutch_price(auction.auction_type, now)),
                                   fva) = "Ok"
      [] op = "bid_penny" ->
            \E bidder \in Users, st \in StateAccounts, fva \in FeeVaultAccounts :
                /\ BidPennyErr(StateView(st, bidder)) = "Ok"
                /\ FeeVaultReadErr(Fee(auction.auction_type.increment), fva) = "Ok"
      [] op = "finalize" ->
            \E caller \in Users, st \in StateAccounts, fva \in FeeVaultAccounts :
                /\ FinalizeErr(StateView(st, caller)) = "Ok"
                /\ FeeVaultReadErr(FinalizeFee(auction), fva) = "Ok"
      [] op = "accept_bid" ->
            \E dealer \in Users, st \in StateAccounts, fva \in FeeVaultAccounts :
                /\ AcceptBidErr(StateView(st, dealer), dealer) = "Ok"
                /\ FeeVaultReadErr(Fee(auction.current_bid), fva) = "Ok"
      [] OTHER -> FALSE

\* Some call that writes the program state passes every check.
StateWriterReturnedOk ==
    \/ \E payer \in Users : InitializeErr(payer) = "Ok"
    \/ \E caller \in Users : OwnerErr(state, caller) = "Ok"

\* finalize or accept_bid called with accounts for which every check
\* passes and every transfer goes through, at least one being issued
SettlementPaid(fee_vault_token, escrow_account) ==
    \/ \E caller \in Users, st \in StateAccounts, winner_token \in Users,
          dealer_token \in Users :
          LET xs == FinalizeXfers(auction, escrow_account, dealer_token,
                                  winner_token, fee_vault_token)
          IN  /\ FinalizeErr(StateView(st, caller)) = "Ok"
              /\ FinalizeBranch(auction) = "sale"
              /\ xs # NoXfers /\ Transfers(xs).ok
    \/ \E dealer \in Users, st \in StateAccounts, dealer_token \in Users :
          LET xs == PayoutXfers(escrow_account, auction.current_bid,
                                dealer_token, fee_vault_token)
          IN  /\ AcceptBidErr(StateView(st, dealer), dealer) = "Ok"
              /\ Transfers(xs).ok

CreateOps == {"create_traditional", "create_dutch", "create_penny"}
BidOps == {"bid_traditional", "buy_dutch", "bid_penny"}

\* the error of every create and bid call a caller can make is in errs
CreateAndBidErrsIn(accounts, errs) ==
    /\ \A caller \in Users, st \in accounts :
          LET sv == StateView(st, caller)
          IN  /\ \A deadline \in Deadlines \cup {0} :
                    CreateErr(sv, TRUE, deadline) \in errs
              /\ CreateErr(sv, FALSE, 0) \in errs
              /\ \A amount \in Amounts : BidTraditionalErr(sv, amount) \in errs
              /\ \A max_price \in MaxPrices : BuyDutchErr(sv, max_price) \in errs
              /\ BidPennyErr(sv) \in errs

AllErrors ==
    {"Ok", "BorshIoError", "ContractPaused", "AuctionExpired", "AccountAlreadyInUse",
     "AuctionNotActive", "InvalidAuctionType", "MathOverflow", "BidTooLow", "NoItems"}

\* C21: while the program state is paused, every create, bid_traditional,
\* buy_dutch and bid_penny fails with ContractPaused and none of them takes
\* effect; once the state is not paused none of them fails with
\* ContractPaused.
C21_PausedRejectsCreateAndBid ==
    [][ /\ (state.is_initialized /\ state.paused) =>
              /\ CreateAndBidErrsIn(StateAccounts, {"ContractPaused"})
              /\ last'.op \notin CreateOps \cup BidOps
        /\ (state.is_initialized /\ ~state.paused) =>
              CreateAndBidErrsIn(StateAccounts, AllErrors \ {"ContractPaused"}) ]_vars

\* C22: set_paused, transfer_ownership and claim_fees called by anyone
\* but the owner fail with OnlyOwner, and with AccountNotInitialized while
\* the program state does not exist; the owner changes only to the
\* new_owner the current owner names, and the former owner is rejected from
\* then on.
C22_OnlyOwnerAdministers ==
    [][ /\ \A caller \in Users, st \in StateAccounts :
              /\ ~state.is_initialized =>
                    /\ OwnerErr(state, caller) = "AccountNotInitialized"
                    /\ ClaimFeesErr(StateView(st, caller), caller) = "AccountNotInitialized"
              /\ (state.is_initialized /\ caller # state.owner) =>
                    /\ OwnerErr(state, caller) = "OnlyOwner"
                    /\ ClaimFeesErr(StateView(st, caller), caller) = "OnlyOwner"
        /\ (state.is_initialized /\ state'.owner # state.owner) =>
              /\ OwnerErr(state, state.owner) = "Ok"
              /\ OwnerErr(state', state.owner) = "OnlyOwner"
              /\ state' = [state EXCEPT !.owner = state'.owner] ]_vars

\* C23: claim_fees by the owner on a fee vault of amount 0 fails with
\* NoFunds; on a vault of amount a > 0 it succeeds, moves exactly a out of
\* the fee vault's token account and sets the amount to 0, so that a second
\* claim finds the amount 0.
C23_ClaimFees ==
    [][ /\ (state.is_initialized /\ feeVault.is_initialized) =>
              /\ feeVault.amount = 0 =>
                    ClaimFeesErr(state, state.owner) = "NoFunds"
              /\ feeVault.amount > 0 =>
                    /\ ClaimFeesErr(state, state.owner) = "Ok"
                    /\ \A owner_token \in Users :
                          Transfers(ClaimFeesXfers(owner_token)).ok
        /\ last'.op = "claim_fees" =>
              /\ feeVault.amount > 0 /\ last'.amount = feeVault.amount
              /\ Debited(last'.xfers, FeeVaultTok) = feeVault.amount
              /\ bal'[FeeVaultTok] = bal[FeeVaultTok] - feeVault.amount
              /\ feeVault'.amount = 0 ]_vars

\* ------------------------------------------------------ fee accounting
FeeOps == {"buy_dutch", "bid_penny", "finalize", "accept_bid"}

\* the fee a paying step transferred: the second transfer of its payout
CollectedFee(op, xs) == IF op \in FeeOps /\ Len(xs) = 2 THEN xs[2].amt ELSE 0

\* C24: as soon as a non-zero fee is collected (by buy_dutch, bid_penny,
\* finalize or accept_bid) the fee vault record exists and its amount has
\* grown by that fee; claim_fees alone takes the amount back to 0, and no
\* other step changes it: the amount is the sum of the fees collected since
\* the last claim.
C24_FeeVaultRecordsEveryFee ==
    [][ /\ CollectedFee(last'.op, last'.xfers) > 0 =>
              /\ feeVault'.is_initialized
              /\ feeVault'.amount =
                    feeVault.amount + CollectedFee(last'.op, last'.xfers)
        /\ CollectedFee(last'.op, last'.xfers) = 0 =>
              feeVault'.amount = IF last'.op = "claim_fees" THEN 0
                                 ELSE feeVault.amount ]_vars

\* C25: create fails while the program state is missing or paused, and
\* for Traditional and Dutch auctions when deadline <= now; a successful
\* create leaves an Active auction with current_bid = 0, no bidder, no item
\* and finalized_at = 0 and adds exactly 1 to auction_count, which no other
\* operation changes.
C25_CreateCountsAuctions ==
    [][ /\ \A dealer \in Users, st \in StateAccounts, deadline \in Deadlines \cup {0} :
              LET sv == StateView(st, dealer)
              IN  /\ (~state.is_initialized \/ state.paused) =>
                        /\ CreateErr(sv, TRUE, deadline) # "Ok"
                        /\ CreateErr(sv, FALSE, 0) # "Ok"
                  /\ deadline <= now => CreateErr(sv, TRUE, deadline) # "Ok"
        /\ last'.op \in CreateOps =>
              /\ auction'.is_initialized /\ auction'.status = "Active"
              /\ auction'.current_bid = 0
              /\ auction'.current_bidder = DefaultPubkey
              /\ auction'.item_count = 0 /\ auction'.finalized_at = 0
              /\ state.is_initialized /\ state'.is_initialized
              /\ state'.auction_count = state.auction_count + 1
        /\ (state.is_initialized /\ last'.op \notin CreateOps) =>
              state'.auction_count = state.auction_count ]_vars

\* ------------------------------------------------ the items of an auction
\* One Traditional auction that holds no item yet, or all but one of the
\* MAX_ITEMS it may hold (each deposited with amount 1 of the same mint).
\* Deposits are followed up to MaxItemDeposits items, and from
\* MAX_ITEMS - 1 items on.
ItemAmounts == {1, 5}

DepositedItems(n) ==
    [i \in 1 .. n |-> [amount |-> 1, index |-> i - 1, is_initialized |-> TRUE]]

ItemInit ==
    /\ state = [is_initialized |-> TRUE, owner |-> 1, paused |-> FALSE,
                auction_count |-> 1]
    /\ \E dealer \in Users, deadline \in Deadlines, n \in {0, MAX_ITEMS - 1} :
          /\ auction = [NewAuction(dealer, "Traditional",
                            [kind |-> "Traditional", start_amount |-> 0,
                             increment |-> 100, reserve_price |-> 300,
                             deadline |-> deadline, acceptance_deadline |-> 0,
                             reserve_met |-> FALSE])
                        EXCEPT !.item_count = n]
          /\ items = DepositedItems(n)
          /\ vault = (n > 0)
          /\ bal = [t \in Tracked |-> IF t = ItemVaultTok THEN n ELSE 0]
          /\ last = IF n = 0 THEN Done("create_traditional", 0, NoXfers)
                    ELSE Done("deposit_item", 1,
                              << Xfer(Wallet(dealer), ItemVaultTok, 1) >>)
    /\ feeVault = NoFeeVault /\ now = 0

ItemsFollowed == Len(items) < MaxItemDeposits \/ Len(items) >= MAX_ITEMS - 1

ItemDepositTokens == DepositOf("deposit_item", ItemAmounts, ItemsFollowed)
\* process_deposit_nft: process_deposit_tokens with amount = 1
DepositNft == DepositOf("deposit_nft", {1}, ItemsFollowed)

ItemNext ==
    \/ Tick
    \/ ItemDepositTokens
    \/ DepositNft
    \/ FinalizeAuction
    \/ CloseItemVault

ItemSpec == ItemInit /\ [][ItemNext]_vars

DepositOps == {"deposit_item", "deposit_nft"}

\* the indices of the item records that exist
ItemIndices == {items[i].index : i \in {j \in 1 .. Len(items) : items[j].is_initialized}}

\* deposit: who may, when, and what a success writes
DepositRules ==
    /\ \A dealer \in Users :
          auction.is_initialized =>
              /\ dealer # auction.dealer => DepositErr(dealer) = "OnlyDealer"
              /\ (dealer = auction.dealer /\ auction.status # "Active") =>
                    DepositErr(dealer) = "AuctionNotActive"
              /\ (dealer = auction.dealer /\ auction.status = "Active"
                     /\ auction.item_count >= MAX_ITEMS) =>
                    DepositErr(dealer) = "MaxItemsExceeded"
              /\ DepositErr(dealer) = "Ok" => auction.item_count < MAX_ITEMS
    /\ last'.op \in DepositOps =>
          /\ items' = Append(items, [amount |-> last'.amount,
                                     index |-> auction.item_count,
                                     is_initialized |-> TRUE])
          /\ auction'.item_count = auction.item_count + 1
          /\ last'.op = "deposit_nft" => last'.amount = 1
    /\ (auction.is_initialized /\ last'.op \notin DepositOps) =>
          auction'.item_count = auction.item_count

\* C26 as stated: deposit succeeds only for the dealer of an Active
\* auction holding fewer than MAX_ITEMS items; it creates the item of index
\* item_count and adds 1 to item_count (a non-fungible deposit records
\* amount 1); after any sequence of operations the items of the auction
\* have exactly the indices 0 .. item_count - 1.
C26_ItemsHaveAllIndices ==
    [][ /\ DepositRules
        /\ auction'.is_initialized =>
              ItemIndices' = 0 .. (auction'.item_count - 1) ]_vars

\* C26 amended: the same rules of deposit; the items ever deposited have
\* the indices 0 .. item_count - 1 in order, and those that still exist
\* are the ones whose vault has not been closed (close_item_vault removes
\* the record and leaves item_count as it is).
C26_ItemsIndexedInOrder ==
    [][ /\ DepositRules
        /\ auction'.is_initialized =>
              /\ Len(items') = auction'.item_count
              /\ \A i \in 1 .. Len(items') : items'[i].index = i - 1
              /\ ItemIndices' \subseteq 0 .. (auction'.item_count - 1)
        /\ ItemIndices' # ItemIndices =>
              last'.op \in DepositOps \cup {"close_item_vault"} ]_vars

\* the auction filled to MAX_ITEMS by a deposit, the next one refused
C26_AuctionFull ==
    /\ auction.item_count = MAX_ITEMS /\ last.op \in DepositOps
    /\ ItemIndices = 0 .. (MAX_ITEMS - 1)
    /\ DepositErr(auction.dealer) = "MaxItemsExceeded"

\* ------------------------------------------------------ item cleanup
\* C27: close_item_vault succeeds only on a Finalized or Refunded auction
\* and for its dealer or its bidder; while the auction is Active or Expired
\* it fails and nothing leaves the item vault; it fails with NoItems when
\* the item record is absent or its index is not item_index.
C27_CloseOnlyAfterSettlement ==
    [][ /\ \A authority \in Users, ac \in AuctionAccounts,
              item_acct \in 0 .. (MaxDeposits - 1),
              item_index \in 0 .. (MaxDeposits - 1) :
              LET err == CloseItemVaultErr(AuctionView(ac, authority), authority,
                                           item_acct, item_index)
                  absent == \/ item_acct + 1 > Len(items)
                            \/ ~items[item_acct + 1].is_initialized
              IN  auction.is_initialized =>
                    /\ err = "Ok" =>
                          /\ Terminal
                          /\ authority \in {auction.dealer, auction.current_bidder}
                    /\ (Terminal /\ authority \in {auction.dealer, auction.current_bidder}
                           /\ (absent \/ items[item_acct + 1].index # item_index)) =>
                          err = "NoItems"
        /\ (auction.is_initialized /\ ~Terminal) =>
              /\ last'.op # "close_item_vault"
              /\ bal'[ItemVaultTok] >= bal[ItemVaultTok] ]_vars

C29_ReserveMetTracksBid ==
    [][ (IsTraditional /\ auction'.is_initialized) =>
           /\ last'.op = "bid_traditional" =>
                 auction'.auction_type.reserve_met =
                     (last'.amount >= auction.auction_type.reserve_price)
           /\ last'.op # "bid_traditional" =>
                 auction'.auction_type.reserve_met = auction.auction_type.reserve_met
           /\ auction'.current_bidder # DefaultPubkey =>
                 (auction'.auction_type.reserve_met <=>
                     auction'.current_bid >= auction'.auction_type.reserve_price) ]_vars

\* a bid of exactly the reserve price, which meets it
C29_BidAtReserve ==
    /\ IsTraditional /\ HasBidder /\ last.op = "bid_traditional"
    /\ auction.current_bid = auction.auction_type.reserve_price
    /\ auction.auction_type.reserve_met

\* --------------------------------------------------------- initialization
\* C30: initialize succeeds only while the program state does not exist,
\* and sets owner = caller, paused = false, auction_count = 0; on a program
\* state that exists it fails for every caller, and the state stays
\* initialized.
C30_InitializeOnce ==
    [][ /\ state.is_initialized =>
              /\ \A payer \in Users : InitializeErr(payer) # "Ok"
              /\ state'.is_initialized
        /\ (~state.is_initialized /\ state'.is_initialized) =>
              /\ \E payer \in Users :
                    /\ InitializeErr(payer) = "Ok"
                    /\ state'.owner = payer
              /\ ~state'.paused /\ state'.auction_count = 0 ]_vars

\* a program state that was paused after an auction was created, on which
\* initialize is refused
C30_InitializedAndChanged ==
    /\ state.is_initialized /\ state.paused /\ state.auction_count = 1
    /\ state.owner = 2
    /\ \A payer \in Users : InitializeErr(payer) = "AccountAlreadyInUse"

\* ------------------------------------------------- the time of settlement
\* C31: finalized_at is 0 while the status is Active or Expired; the step
\* that moves the auction to Finalized or Refunded sets finalized_at to the
\* time of that step, and no later step changes it.
C31_FinalizedAtStamped ==
    [][ auction'.is_initialized =>
           /\ auction'.status \in {"Active", "Expired"} => auction'.finalized_at = 0
           /\ (auction.is_initialized /\ ~Terminal
                  /\ auction'.status \in {"Finalized", "Refunded"}) =>
                 auction'.finalized_at = now
           /\ Terminal => auction'.finalized_at = auction.finalized_at ]_vars

\* an auction settled after its deadline, seen at a later time
C31_SettledEarlier ==
    /\ Terminal
    /\ auction.finalized_at > 0
    /\ now > auction.finalized_at

\* ------------------------------------------------------------ the escrow
\* C32: after every step the escrow of a Traditional auction holds
\* current_bid while the status is Active or Expired and nothing once it is
\* Finalized or Refunded; what leaves the escrow leaves it in a bid (the
\* outbid refund), a finalize (the sale or the expiry refund) or an
\* accept_bid, and is the whole prior current_bid.
C32_EscrowHoldsCurrentBid ==
    [][ (auction'.is_initialized /\ auction'.auction_type.kind = "Traditional") =>
           /\ bal'[EscrowTok] =
                 IF auction'.status \in {"Finalized", "Refunded"} THEN 0
                 ELSE auction'.current_bid
           /\ Debited(last'.xfers, EscrowTok) > 0 =>
                 /\ last'.op \in {"bid_traditional", "finalize", "accept_bid"}
                 /\ Debited(last'.xfers, EscrowTok) = auction.current_bid ]_vars

\* ------------------------------------------- the items of a refunded auction
\* C33: on a Refunded auction close_item_vault, given the auction's own
\* account, succeeds for the dealer only: not for the bidder whose bid
\* finalize returned from the escrow.
C33_RefundedItemsToDealerOnly ==
    (auction.is_initialized /\ auction.status = "Refunded") =>
        \A authority \in Users, item_acct \in 0 .. (MaxDeposits - 1),
           item_index \in 0 .. (MaxDeposits - 1) :
            CloseItemVaultErr(AuctionView("pda", authority), authority,
                              item_acct, item_index) = "Ok"
               => authority = auction.dealer

\* ------------------------------------------------ bidding and settling
\* C34: at no time can a bid and a finalize both succeed on an auction,
\* whoever calls them and whatever state accounts they pass: not
\* bid_traditional and finalize, not buy_dutch and finalize, not bid_penny
\* and finalize; nor can accept_bid and the refunding finalize of an
\* Expired auction.
C34_BidExcludesFinalize ==
    auction.is_initialized =>
        \A bidder \in Users, caller \in Users, sb \in StateAccounts,
           sf \in StateAccounts :
            LET bv == StateView(sb, bidder)
                finalizes == FinalizeErr(StateView(sf, caller)) = "Ok"
            IN  /\ ~(finalizes /\ \E amount \in Amounts :
                                      BidTraditionalErr(bv, amount) = "Ok")
                /\ ~(finalizes /\ \E max_price \in MaxPrices :
                                      BuyDutchErr(bv, max_price) = "Ok")
                /\ ~(finalizes /\ BidPennyErr(bv) = "Ok")
                /\ ~(/\ AcceptBidErr(bv, bidder) = "Ok"
                     /\ finalizes
                     /\ FinalizeBranch(auction) = "refund_bid")

\* ------------------------------------------- a Penny auction without a bid
\* C35: while no bid was placed on a Penny auction, no finalize succeeds on
\* it -- one that passes the entry checks fails with NoBidder, at every
\* time -- its status stays Active, and close_item_vault is not enabled
\* for its items, whoever calls it and whatever accounts are passed.
C35_UnbidPennyStaysActive ==
    [][ (IsPenny /\ ~HasBidder) =>
           /\ \A caller \in Users, st \in StateAccounts :
                 LET sv == StateView(st, caller)
                 IN  /\ FinalizeErr(sv) # "Ok"
                     /\ EntryErr(sv, {"Active", "Expired"}) = "Ok"
                           => FinalizeErr(sv) = "NoBidder"
           /\ auction'.status = "Active"
           /\ \A authority \in Users, ac \in AuctionAccounts,
                 item_acct \in 0 .. (MaxDeposits - 1),
                 item_index \in 0 .. (MaxDeposits - 1) :
                 CloseItemVaultErr(AuctionView(ac, authority), authority,
                                   item_acct, item_index) # "Ok"
           /\ last'.op # "close_item_vault" ]_vars

\* ------------------------------------------------ settling while paused
\* C36: while the program is paused, finalize and accept_bid on an auction
\* that exists fail with ContractPaused whoever calls them and whatever state account they pass,
\* and neither takes effect; claim_fees answers as it would were the
\* program not paused.
C36_PausedBlocksSettlement ==
    [][ (state.is_initialized /\ state.paused /\ auction.is_initialized) =>
           /\ \A caller \in Users, st \in StateAccounts :
                 /\ FinalizeErr(StateView(st, caller)) = "ContractPaused"
                 /\ AcceptBidErr(StateView(st, caller), caller) = "ContractPaused"
           /\ last'.op \notin {"finalize", "accept_bid"}
           /\ \A caller \in Users :
                 ClaimFeesErr(state, caller) =
                     ClaimFeesErr([state EXCEPT !.paused = FALSE], caller) ]_vars

\* --------------------------------------------------- the Expired status
\* C37: after every step, an Expired auction is a Traditional auction with
\* a bidder, reserve_met false, acceptance_deadline = deadline + 24h and
\* current_bid held in its escrow; a Penny auction is neither Expired nor
\* Refunded; acceptance_deadline of a Traditional auction is 0 while it is
\* Active and is written only by the step that leaves it Expired.
C37_ExpiredIsHeldTraditionalBid ==
    [][ auction'.is_initialized =>
          LET q == auction'.auction_type
          IN
          /\ auction'.status = "Expired" =>
                /\ q.kind = "Traditional"
                /\ auction'.current_bidder # DefaultPubkey
                /\ ~q.reserve_met
                /\ q.acceptance_deadline = q.deadline + ACCEPTANCE_PERIOD
                /\ bal'[EscrowTok] = auction'.current_bid
          /\ q.kind = "Penny" => auction'.status \notin {"Expired", "Refunded"}
          /\ (q.kind = "Traditional" /\ auction'.status = "Active") =>
                q.acceptance_deadline = 0
          /\ (IsTraditional
                 /\ q.acceptance_deadline # auction.auction_type.acceptance_deadline) =>
                auction'.status = "Expired" ]_vars

\* ------------------------------------------- Dutch auctions of any interval
\* One Dutch auction as process_create_dutch_auction leaves it at time 0:
\* the interval is stored as given, 0 included.
DutchIntervalTerms == {<<400, 100, 0, 200>>, <<400, 100, 1, 200>>, <<1000, 10, 60, 100>>}

DutchIntervalInit ==
    /\ state = [is_initialized |-> TRUE, owner |-> 1, paused |-> FALSE,
                auction_count |-> 1]
    /\ \E dealer \in Users, terms \in DutchIntervalTerms, deadline \in Deadlines :
          auction = NewAuction(dealer, "Dutch",
                        [kind |-> "Dutch", start_price |-> terms[1],
                         decrease_amount |-> terms[2], interval |-> terms[3],
                         minimum_price |-> terms[4], deadline |-> deadline,
                         start_time |-> 0])
    /\ items = << >> /\ vault = FALSE /\ feeVault = NoFeeVault
    /\ bal = [t \in Tracked |-> 0] /\ now = 0
    /\ last = Done("create_dutch", 0, NoXfers)

DutchIntervalNext ==
    \/ Tick
    \/ DepositTokens
    \/ BuyDutch
    \/ FinalizeAuction
    \/ CloseItemVault

DutchIntervalSpec == DutchIntervalInit /\ [][DutchIntervalNext]_vars

\* C38: for every Dutch auction that was created, calculate_dutch_price
\* returns a price at the current time, and a buy_dutch at any now <=
\* deadline succeeds or fails with an error of the program: it never
\* aborts.
C38_BuyDutchNeverAborts ==
    IsDutch =>
        /\ ~DutchPriceAborts(auction.auction_type, now)
        /\ now <= auction.auction_type.deadline =>
              \A buyer \in Users, max_price \in MaxPrices, st \in StateAccounts :
                  BuyDutchErr(StateView(st, buyer), max_price)
                      # "ProgramFailedToComplete"

\* ----------------------------------------------- the accounts of a Penny auction
\* C39: after every step of a Penny auction current_bid = total_paid,
\* nothing is in its escrow, and current_deadline >= last_bid_time when
\* timer_duration >= 0; total_paid grows by exactly the increment at each
\* bid_penny that takes effect and at no other step (so it is the
\* increment times the number of bids), and each such bid debits the
\* increment from the bidder, net(increment) going to the dealer and
\* fee(increment) to the fee vault.
C39_PennyAccounting ==
    [][ (auction'.is_initialized /\ auction'.auction_type.kind = "Penny") =>
          LET q == auction'.auction_type
          IN
          /\ auction'.current_bid = q.total_paid
          /\ bal'[EscrowTok] = 0
          /\ q.timer_duration >= 0 => q.current_deadline >= q.last_bid_time
          /\ IF last'.op = "bid_penny"
             THEN /\ q.total_paid = auction.auction_type.total_paid + q.increment
                  /\ Debited(last'.xfers, Wallet(auction'.current_bidder)) = q.increment
                  /\ Credited(last'.xfers, Wallet(auction.dealer)) = Net(q.increment)
                  /\ Credited(last'.xfers, FeeVaultTok) = Fee(q.increment)
             ELSE auction.is_initialized =>
                     q.total_paid = auction.auction_type.total_paid ]_vars

\* ------------------------------------------------------ settling in time
\* a Traditional auction past deadline + 24h that is Active or Expired, or an
\* Active Dutch auction past its deadline
Overdue ==
    \/ /\ IsTraditional
       /\ auction.status \in {"Active", "Expired"}
       /\ now > auction.auction_type.deadline + ACCEPTANCE_PERIOD
    \/ /\ IsDutch
       /\ auction.status = "Active"
       /\ now > auction.auction_type.deadline

\* C40: while the program is not paused, a finalize of an overdue
\* Traditional or Dutch auction passes every check, its transfers out of
\* the auction's escrow to the dealer, the fee vault and the bidder go
\* through, and a finalize that takes effect leaves the auction Finalized or
\* Refunded.
C40_OverdueFinalizeSettles ==
    [][ (state.is_initialized /\ ~state.paused /\ Overdue) =>
           /\ \A caller \in Users : FinalizeErr(StateView("pda", caller)) = "Ok"
           /\ Transfers(FinalizeXfers(auction, EscrowTok, Wallet(auction.dealer),
                                      Wallet(auction.current_bidder),
                                      FeeVaultTok)).ok
           /\ last'.op = "finalize" =>
                 auction'.status \in {"Finalized", "Refunded"} ]_vars

=============================================================================
